---- MODULE Spec2Model ----
(***************************************************************************)
(* Model of server.js: the Express gateway with the handlers /maps,        *)
(* /api/openaq, /api/openweather, /api/airnow and /api/gemini.             *)
(*                                                                         *)
(* JavaScript values are tagged records ([t |-> "string", s |-> ...]).     *)
(* Strings that the code parses or escapes (query parameters, observation  *)
(* values, the map key, URLs) are sequences of one-character strings, so   *)
(* that parseFloat, parseInt, Number, String and encodeURIComponent are    *)
(* computed character by character. Strings that the code only passes      *)
(* along (messages, upstream body texts) are TLA+ strings (JText).         *)
(*                                                                         *)
(* A handler runs from one await to the next in one action: XStart is the  *)
(* code up to `await fetch(...)`, XFetched the code from there to the      *)
(* `await r.json()` / `await r.text()`, XBody the rest.                    *)
(*                                                                         *)
(* Spec follows one request over all the query and body inputs, SpecOpenaq *)
(* one /api/openaq request over all the result lists, SpecConc several     *)
(* requests whose awaits interleave.                                       *)
(***************************************************************************)
EXTENDS Integers, Sequences, FiniteSets, TLC

(***************************************************************************)
(* Bounds of the model.                                                    *)
(***************************************************************************)
\* Longest upstream `results` list of /api/openaq.
MaxResults == 3
\* Number of concurrent requests in SpecConc.
NumReqs == 2

(***************************************************************************)
(* JavaScript values.                                                      *)
(***************************************************************************)
Undef == [t |-> "undefined"]
JNull == [t |-> "null"]
\* A string as a sequence of characters, and a string the code never looks into.
JStr(s) == [t |-> "string", s |-> s]
JText(s) == [t |-> "text", s |-> s]
JBool(b) == [t |-> "boolean", b |-> b]
\* A finite number n/d (d > 0, lowest terms); NaN; +Infinity and -Infinity.
Fin(n) == [t |-> "number", k |-> "fin", n |-> n, d |-> 1]
NaN == [t |-> "number", k |-> "nan", n |-> 0, d |-> 1]
Inf(sign) == [t |-> "number", k |-> "inf", n |-> sign, d |-> 1]
JObj(f) == [t |-> "object", f |-> f]
JArr(a) == [t |-> "array", a |-> a]

\* isFinite(x) / Number.isFinite(x) on a number.
IsFiniteNum(x) == x.t = "number" /\ x.k = "fin"

\* ToBoolean: undefined, null, false, 0, NaN and "" are falsy.
Truthy(v) ==
  CASE v.t = "undefined" -> FALSE
    [] v.t = "null" -> FALSE
    [] v.t = "boolean" -> v.b
    [] v.t = "number" -> ~(v.k = "nan" \/ (v.k = "fin" /\ v.n = 0))
    [] v.t = "string" -> v.s # <<>>
    [] v.t = "text" -> v.s # ""
    [] OTHER -> TRUE

\* o.k for an object o: the field, or undefined when o has none (also for a
\* string, number or boolean o, whose wrappers have no such own field).
Get(o, k) ==
  IF o.t = "object" /\ k \in DOMAIN o.f THEN o.f[k] ELSE Undef

\* a[0] for an array (or any other value) a.
First(a) ==
  IF a.t = "array" /\ Len(a.a) > 0 THEN a.a[1] ELSE Undef

\* Reading a property of undefined or null throws a TypeError.
Nullish(v) == v.t \in {"undefined", "null"}

(***************************************************************************)
(* Character-level string functions.                                       *)
(***************************************************************************)
Digits == {"0", "1", "2", "3", "4", "5", "6", "7", "8", "9"}
DigitVal(c) ==
  CASE c = "0" -> 0 [] c = "1" -> 1 [] c = "2" -> 2 [] c = "3" -> 3
    [] c = "4" -> 4 [] c = "5" -> 5 [] c = "6" -> 6 [] c = "7" -> 7
    [] c = "8" -> 8 [] c = "9" -> 9

DigitChar(n) ==
  CASE n = 0 -> "0" [] n = 1 -> "1" [] n = 2 -> "2" [] n = 3 -> "3"
    [] n = 4 -> "4" [] n = 5 -> "5" [] n = 6 -> "6" [] n = 7 -> "7"
    [] n = 8 -> "8" [] n = 9 -> "9"

InfinityChars == <<"I", "n", "f", "i", "n", "i", "t", "y">>

RECURSIVE TrimLeft(_)
TrimLeft(s) == IF s # <<>> /\ Head(s) = " " THEN TrimLeft(Tail(s)) ELSE s

RECURSIVE TrimRight(_)
TrimRight(s) ==
  IF s # <<>> /\ s[Len(s)] = " " THEN TrimRight(SubSeq(s, 1, Len(s) - 1)) ELSE s

\* The longest prefix of s made of digits.
RECURSIVE DigitPrefix(_)
DigitPrefix(s) ==
  IF s # <<>> /\ Head(s) \in Digits THEN <<Head(s)>> \o DigitPrefix(Tail(s)) ELSE <<>>

RECURSIVE DigitsValue(_)
DigitsValue(ds) ==
  IF ds = <<>> THEN 0
  ELSE 10 * DigitsValue(SubSeq(ds, 1, Len(ds) - 1)) + DigitVal(ds[Len(ds)])

IsPrefix(p, s) == Len(p) <= Len(s) /\ SubSeq(s, 1, Len(p)) = p

Contains(s, p) ==
  \E i \in 0..(Len(s) - Len(p)) : SubSeq(s, i + 1, i + Len(p)) = p

\* The sign of a numeric literal and the text after it.
SignOf(s) == IF s # <<>> /\ Head(s) = "-" THEN -1 ELSE 1
Unsigned(s) == IF s # <<>> /\ Head(s) \in {"-", "+"} THEN Tail(s) ELSE s

\* parseFloat(v): String(v), leading white space skipped, then the longest
\* prefix that is a decimal literal; NaN when there is none. The inputs of the
\* model hold no '.' and no exponent, so a literal is a sign and digits, or
\* a signed "Infinity".
ParseFloat(v) ==
  IF v.t # "string" THEN NaN
  ELSE LET body == TrimLeft(v.s)
           sign == SignOf(body)
           rest == Unsigned(body)
           ds == DigitPrefix(rest)
       IN IF IsPrefix(InfinityChars, rest) THEN Inf(sign)
          ELSE IF ds = <<>> THEN NaN
          ELSE Fin(sign * DigitsValue(ds))

\* parseInt(v, 10): as parseFloat, but digits only ("Infinity" is NaN).
ParseInt(v) ==
  IF v.t # "string" THEN NaN
  ELSE LET body == TrimLeft(v.s)
           ds == DigitPrefix(Unsigned(body))
       IN IF ds = <<>> THEN NaN ELSE Fin(SignOf(body) * DigitsValue(ds))

\* Number(v), the coercion of line 102. A string is trimmed on both sides and
\* must be a literal as a whole; "" is 0, null is 0, undefined is NaN.
ToNumber(v) ==
  CASE v.t = "number" -> v
    [] v.t = "null" -> Fin(0)
    [] v.t = "boolean" -> IF v.b THEN Fin(1) ELSE Fin(0)
    [] v.t = "string" ->
         LET body == TrimRight(TrimLeft(v.s))
             sign == SignOf(body)
             rest == Unsigned(body)
         IN IF body = <<>> THEN Fin(0)
            ELSE IF rest = InfinityChars THEN Inf(sign)
            ELSE IF rest # <<>> /\ DigitPrefix(rest) = rest
                 THEN Fin(sign * DigitsValue(rest))
            ELSE NaN
    [] OTHER -> NaN

RECURSIVE NatToChars(_)
NatToChars(n) ==
  IF n < 10 THEN <<DigitChar(n)>> ELSE NatToChars(n \div 10) \o <<DigitChar(n % 10)>>

\* String(x) / `${x}` for a number x (an integer, NaN or an infinity).
NumToString(x) ==
  CASE x.k = "nan" -> <<"N", "a", "N">>
    [] x.k = "inf" -> IF x.n < 0 THEN <<"-">> \o InfinityChars ELSE InfinityChars
    [] OTHER -> IF x.n < 0 THEN <<"-">> \o NatToChars(-x.n) ELSE NatToChars(x.n)

\* encodeURIComponent: letters, digits and - _ . ! ~ * ' ( ) stay, every other
\* character becomes %XX (the table holds the other characters of the model).
Unreserved ==
  Digits \cup {"-", "_", ".", "!", "~", "*", "'", "(", ")"} \cup
  {"a", "b", "c", "d", "e", "f", "g", "h", "i", "j", "k", "l", "m", "n", "o",
   "p", "q", "r", "s", "t", "u", "v", "w", "x", "y", "z",
   "A", "B", "C", "D", "E", "F", "G", "H", "I", "J", "K", "L", "M", "N", "O",
   "P", "Q", "R", "S", "T", "U", "V", "W", "X", "Y", "Z"}

EscapeChar(c) ==
  CASE c \in Unreserved -> <<c>>
    [] c = " " -> <<"%", "2", "0">>
    [] c = "%" -> <<"%", "2", "5">>
    [] c = "&" -> <<"%", "2", "6">>
    [] c = "+" -> <<"%", "2", "B">>
    [] c = "," -> <<"%", "2", "C">>
    [] c = "/" -> <<"%", "2", "F">>
    [] c = ":" -> <<"%", "3", "A">>
    [] c = "=" -> <<"%", "3", "D">>
    [] c = "?" -> <<"%", "3", "F">>

RECURSIVE EncodeURIComponent(_)
EncodeURIComponent(s) ==
  IF s = <<>> THEN <<>> ELSE EscapeChar(Head(s)) \o EncodeURIComponent(Tail(s))

(***************************************************************************)
(* JSON.stringify as res.json applies it: a field whose value is undefined *)
(* is left out, an undefined array element and a non-finite number become  *)
(* null.                                                                   *)
(***************************************************************************)
RECURSIVE Stringify(_)
Stringify(v) ==
  CASE v.t = "object" ->
         JObj([k \in {x \in DOMAIN v.f : v.f[x].t # "undefined"} |-> Stringify(v.f[k])])
    [] v.t = "array" ->
         JArr([i \in 1..Len(v.a) |->
                 IF v.a[i].t = "undefined" THEN JNull ELSE Stringify(v.a[i])])
    [] v.t = "number" -> IF v.k = "fin" THEN v ELSE JNull
    [] OTHER -> v

\* res.status(code).json(obj): the response as the client receives it.
JsonResponse(code, obj) == [status |-> code, body |-> Stringify(obj), location |-> <<>>]

\* The catch block of every handler: res.status(500).json({ error: err.message }).
Caught(message) == JsonResponse(500, JObj([error |-> JText(message)]))

(***************************************************************************)
(* Configuration (lines 45-51).                                            *)
(***************************************************************************)
OPENWEATHER_API_KEY ==
  <<"9", "b", "a", "3", "8", "3", "8", "5", "0", "7", "2", "b", "e", "4",
  "8", "4", "1", "4", "c", "d", "2", "5", "4", "f", "e", "6", "0", "0", "6",
  "a", "b", "0">>

AIRNOW_API_KEY ==
  <<"C", "9", "1", "D", "5", "1", "E", "6", "-", "E", "7", "A", "B", "-",
  "4", "6", "3", "D", "-", "B", "2", "7", "C", "-", "E", "5", "0", "0", "9",
  "4", "4", "E", "7", "9", "C", "9">>

\* Values of process.env.GOOGLE_MAPS_API_KEY: unset (the built-in default of
\* line 47) and a key holding characters that encodeURIComponent escapes.
GoogleMapsDefaultKey ==
  <<"A", "I", "z", "a", "S", "y", "B", "6", "y", "y", "L", "w", "R", "f",
  "S", "R", "w", "C", "e", "n", "l", "k", "p", "L", "Y", "F", "7", "n", "K",
  "P", "M", "c", "z", "e", "w", "f", "r", "O", "A">>

MapsKeys == {GoogleMapsDefaultKey, <<"k", "&", "v", "=", "1", ",", " ", "/">>}

\* Values of process.env.GEMINI_API_KEY || "".
GeminiKeys == {<<>>, <<"g", "-", "k", "e", "y">>}

\* new Date(t) is a valid date for |t| <= 8.64e15 ms, which is 100,000,000 days;
\* the model counts time in days.
MaxDateDays == 100000000

\* What `await fetch(...)` gives: a Response with a status, or 0 for a rejection
\* (DNS failure, connection reset, ...).
Rejected == 0
FetchOutcomes == {Rejected, 200, 404, 503}

VARIABLES
  fetch,                \* TRUE when line 24 found a fetch implementation
  GEMINI_API_KEY,       \* line 49
  GOOGLE_MAPS_API_KEY,  \* line 47
  pc,                   \* per request: where its handler is
  route,                \* per request: the route it arrived on
  input,                \* per request: req.query / req.body and `now`
  calls,                \* per request: the upstream requests fetch() was given
  upstream,             \* per request: the fetch Response r (status, body read)
  sent                  \* per request: the responses written to res

vars == <<fetch, GEMINI_API_KEY, GOOGLE_MAPS_API_KEY, pc, route, input, calls, upstream, sent>>
config == <<fetch, GEMINI_API_KEY, GOOGLE_MAPS_API_KEY>>

Reqs == 1..NumReqs

NoInput == [none |-> TRUE]

Init ==
  /\ fetch \in BOOLEAN
  /\ GEMINI_API_KEY \in GeminiKeys
  /\ GOOGLE_MAPS_API_KEY \in MapsKeys
  /\ pc = [r \in Reqs |-> "idle"]
  /\ route = [r \in Reqs |-> "none"]
  /\ input = [r \in Reqs |-> NoInput]
  /\ calls = [r \in Reqs |-> <<>>]
  /\ upstream = [r \in Reqs |-> [status |-> Rejected, body |-> Undef]]
  /\ sent = [r \in Reqs |-> <<>>]

\* `return res...json(...)`: the response is written and the handler ends.
Respond(r, response) ==
  /\ sent' = [sent EXCEPT ![r] = Append(@, response)]
  /\ pc' = [pc EXCEPT ![r] = "done"]

\* `await fetch(request)`: the call is issued and the handler suspends.
Fetch(r, request) ==
  /\ calls' = [calls EXCEPT ![r] = Append(@, request)]
  /\ pc' = [pc EXCEPT ![r] = "awaitFetch"]

Arrive(r, path, in) ==
  /\ pc[r] = "idle"
  /\ route' = [route EXCEPT ![r] = path]
  /\ input' = [input EXCEPT ![r] = in]

\* r.ok
Ok(status) == status >= 200 /\ status <= 299


FetchFailedMessage == "fetch failed"
BodyFailedMessage == "Unexpected token < in JSON at position 0"

(***************************************************************************)
(* GET /maps (lines 56-60).                                                *)
(***************************************************************************)
MapsUrlPrefix ==
  <<"h", "t", "t", "p", "s", ":", "/", "/", "m", "a", "p", "s", ".", "g",
  "o", "o", "g", "l", "e", "a", "p", "i", "s", ".", "c", "o", "m", "/", "m",
  "a", "p", "s", "/", "a", "p", "i", "/", "j", "s", "?", "k", "e", "y",
  "=">>

LibrariesParam ==
  <<"&", "l", "i", "b", "r", "a", "r", "i", "e", "s", "=">>

VersionParam ==
  <<"&", "v", "=", "w", "e", "e", "k", "l", "y">>

libs ==
  <<"p", "l", "a", "c", "e", "s", ",", "d", "r", "a", "w", "i", "n", "g",
  ",", "g", "e", "o", "m", "e", "t", "r", "y">>

\* A faulty variant of MapsUrl: the key is put into the URL unescaped.
MapsUrlRawKey(key) ==
  MapsUrlPrefix \o key \o LibrariesParam \o EncodeURIComponent(libs) \o VersionParam

\* Line 58.
MapsUrl(key) ==
  MapsUrlPrefix \o EncodeURIComponent(key) \o LibrariesParam
    \o EncodeURIComponent(libs) \o VersionParam

\* res.redirect(url) answers 302 with Location: url (Express's default status;
\* its encodeUrl leaves a URL of already escaped components as it is).
Maps(r) ==
  /\ Arrive(r, "/maps", NoInput)
  /\ Respond(r, [status |-> 302, body |-> Undef, location |-> MapsUrl(GOOGLE_MAPS_API_KEY)])
  /\ UNCHANGED <<config, calls, upstream>>

(***************************************************************************)
(* GET /api/openaq (lines 66-109).                                         *)
(***************************************************************************)
FetchMissingOpenaq == "Server fetch not available. Install node-fetch or run Node 18+"
FetchMissing == "Server fetch not available"
CoordsRequired == "lat,lon required"
InvalidTime == "Invalid time value"

\* Date.prototype.toISOString: one text per instant (kept as the instant, in
\* days); a RangeError for an invalid date, which ValidDate excludes.
ValidDate(t) == t >= -MaxDateDays /\ t <= MaxDateDays
ToISOString(t) == [iso |-> t]

\* req.query.x || dflt
OrDefault(v, dflt) == IF Truthy(v) THEN v ELSE JStr(dflt)

Max(a, b) == IF a >= b THEN a ELSE b

\* Lines 78-79: the look-back in days, at least 1.
DaysSafe(days) == Max(1, IF IsFiniteNum(days) THEN days.n ELSE 1)

\* Lines 81-88: the upstream URL, as its base and search parameters.
OpenaqUrl(lat, lon, radius, dateFrom, dateTo) ==
  [base |-> "https://api.openaq.org/v2/measurements",
   parameter |-> "pm25",
   coordinates |-> NumToString(lat) \o <<",">> \o NumToString(lon),
   radius |-> NumToString(radius),
   date_from |-> ToISOString(dateFrom),
   date_to |-> ToISOString(dateTo),
   limit |-> "1000",
   sort |-> "desc"]

\* Line 72.
OpenaqRadius(q) == ParseInt(OrDefault(q.radius, <<"5", "0", "0", "0">>))

\* Line 73.
OpenaqDays(q) == ParseInt(OrDefault(q.days, <<"1">>))

\* Lines 68-90, up to the await of fetch.
OpenaqStart(r, q) ==
  /\ Arrive(r, "/api/openaq", q)
  /\ LET lat == ParseFloat(q.lat)
         lon == ParseFloat(q.lon)
         radius == OpenaqRadius(q)
         days == OpenaqDays(q)
         dateTo == q.now
         dateFrom == q.now - DaysSafe(days)
     IN IF ~fetch
          THEN Respond(r, JsonResponse(500, JObj([error |-> JText(FetchMissingOpenaq)])))
                 /\ UNCHANGED calls
        ELSE IF ~IsFiniteNum(lat) \/ ~IsFiniteNum(lon)
          THEN Respond(r, JsonResponse(400, JObj([error |-> JText(CoordsRequired)])))
                 /\ UNCHANGED calls
        ELSE IF ~ValidDate(dateFrom)
          THEN Respond(r, Caught(InvalidTime)) /\ UNCHANGED calls
        ELSE Fetch(r, OpenaqUrl(lat, lon, radius, dateFrom, dateTo)) /\ UNCHANGED sent
  /\ UNCHANGED <<config, upstream>>

\* A faulty variant of Settled: a failed call is issued again.
SettledRetrying(r, failed, outcome) ==
  /\ upstream' = [upstream EXCEPT ![r].status = outcome]
  /\ IF outcome = Rejected \/ ~Ok(outcome)
       THEN IF Len(calls[r]) < 2
              THEN Fetch(r, calls[r][1]) /\ UNCHANGED sent
              ELSE Respond(r, Caught(FetchFailedMessage)) /\ UNCHANGED calls
     ELSE pc' = [pc EXCEPT ![r] = "awaitJson"] /\ UNCHANGED <<sent, calls>>
  /\ UNCHANGED <<config, route, input>>

\* A faulty variant of Settled: no catch block, a rejected fetch ends the handler with
\* no response.
SettledUncaught(r, failed, outcome) ==
  /\ upstream' = [upstream EXCEPT ![r].status = outcome]
  /\ IF outcome = Rejected THEN pc' = [pc EXCEPT ![r] = "done"] /\ UNCHANGED sent
     ELSE IF ~Ok(outcome)
       THEN Respond(r, JsonResponse(500,
              JObj([error |-> JText(failed), status |-> Fin(outcome)])))
     ELSE pc' = [pc EXCEPT ![r] = "awaitJson"] /\ UNCHANGED sent
  /\ UNCHANGED <<config, route, input, calls>>

\* `const r = await fetch(url); if (!r.ok) return res.status(500).json({ error,
\* status: r.status })` (lines 90-93, 121-122, 141-142): fetch settled; a
\* rejection goes to the catch block, a good status on to `await r.json()`.
Settled(r, failed, outcome) ==
  /\ upstream' = [upstream EXCEPT ![r].status = outcome]
  /\ IF outcome = Rejected THEN Respond(r, Caught(FetchFailedMessage))
     ELSE IF ~Ok(outcome)
       THEN Respond(r, JsonResponse(500,
              JObj([error |-> JText(failed), status |-> Fin(outcome)])))
     ELSE pc' = [pc EXCEPT ![r] = "awaitJson"] /\ UNCHANGED sent
  /\ UNCHANGED <<config, route, input, calls>>

\* Lines 90-94.
OpenaqFetched(r, outcome) ==
  /\ pc[r] = "awaitFetch" /\ route[r] = "/api/openaq"
  /\ Settled(r, "OpenAQ fetch failed", outcome)

\* Lines 95-101: one mapped entry of `vals`.
MapObservation(o) ==
  LET date == Get(o, "date")
  IN JObj([value |-> Get(o, "value"),
           date |-> IF Truthy(date) /\ Truthy(Get(date, "local")) THEN Get(date, "local")
                    ELSE IF Truthy(date) /\ Truthy(Get(date, "utc")) THEN Get(date, "utc")
                    ELSE JNull,
           unit |-> Get(o, "unit"),
           location |-> Get(o, "location"),
           country |-> Get(o, "country")])

RECURSIVE Sum(_)
Sum(xs) == IF xs = <<>> THEN 0 ELSE Head(xs).n + Sum(Tail(xs))

RECURSIVE GCD(_, _)
GCD(a, b) == IF b = 0 THEN a ELSE GCD(b, a % b)

Abs(n) == IF n < 0 THEN -n ELSE n

\* The number s / c (c > 0), in lowest terms.
Quotient(s, c) ==
  LET g == GCD(Abs(s), c)
  IN [t |-> "number", k |-> "fin", n |-> s \div g, d |-> c \div g]

\* A faulty variant of Numeric: values that are not finite count as 0 instead of being dropped.
NumericZeroFill(vals) ==
  [i \in 1..Len(vals) |->
     IF IsFiniteNum(ToNumber(Get(vals[i], "value")))
     THEN ToNumber(Get(vals[i], "value")) ELSE Fin(0)]

\* Line 102.
Numeric(vals) ==
  SelectSeq([i \in 1..Len(vals) |-> ToNumber(Get(vals[i], "value"))], IsFiniteNum)

\* A faulty variant of Mean: 0 for no values.
MeanZeroWhenEmpty(numeric) ==
  IF Len(numeric) # 0 THEN Quotient(Sum(numeric), Len(numeric)) ELSE Fin(0)

\* Line 103.
Mean(numeric) ==
  IF Len(numeric) # 0 THEN Quotient(Sum(numeric), Len(numeric)) ELSE JNull

\* Lines 95-104 on the parsed body j; a TypeError goes to the catch block.
OpenaqNormalize(j) ==
  IF Nullish(j) THEN Caught("Cannot read properties of null (reading 'results')")
  ELSE LET results == IF Truthy(Get(j, "results")) THEN Get(j, "results") ELSE JArr(<<>>)
       IN IF results.t # "array" THEN Caught("(j.results || []).map is not a function")
          ELSE IF \E i \in 1..Len(results.a) : Nullish(results.a[i])
            THEN Caught("Cannot read properties of null (reading 'value')")
          ELSE LET vals == [i \in 1..Len(results.a) |-> MapObservation(results.a[i])]
                   numeric == Numeric(vals)
                   meta == IF Truthy(Get(j, "meta")) THEN Get(j, "meta") ELSE JNull
               IN JsonResponse(200,
                    JObj([mean |-> Mean(numeric), values |-> JArr(numeric),
                          raw |-> JArr(vals), meta |-> meta]))

\* What `await r.json()` gives: a parsed value, or a rejection (the body is
\* not JSON, or the connection broke while reading it).
BodyRejected == [t |-> "rejected"]

\* Lines 94-108.
OpenaqBody(r, j) ==
  /\ pc[r] = "awaitJson" /\ route[r] = "/api/openaq"
  /\ upstream' = [upstream EXCEPT ![r].body = j]
  /\ IF j = BodyRejected THEN Respond(r, Caught(BodyFailedMessage))
     ELSE Respond(r, OpenaqNormalize(j))
  /\ UNCHANGED <<config, route, input, calls>>

(***************************************************************************)
(* GET /api/openweather (lines 115-129) and GET /api/airnow (135-149).     *)
(***************************************************************************)
\* `!lat || !lon` on the raw query strings.
CoordsMissing(q) == ~Truthy(q.lat) \/ ~Truthy(q.lon)

\* A faulty variant of CoordsGiven: only latitude is looked at.
CoordsGivenLatOnly(q) == Truthy(q.lat)

CoordsGiven(q) == ~CoordsMissing(q)

\* String(v) as a template literal or encodeURIComponent applies it to a query value.
QueryText(v) ==
  IF v.t = "string" THEN v.s ELSE <<"u", "n", "d", "e", "f", "i", "n", "e", "d">>

\* Line 120.
OpenweatherUrl(q) ==
  [base |-> "https://api.openweathermap.org/data/2.5/weather",
   lat |-> EncodeURIComponent(QueryText(q.lat)),
   lon |-> EncodeURIComponent(QueryText(q.lon)),
   units |-> "metric",
   appid |-> EncodeURIComponent(OPENWEATHER_API_KEY)]

\* Line 140.
AirnowUrl(q) ==
  [base |-> "https://www.airnowapi.org/aq/observation/latLong/current/",
   format |-> "application/json",
   latitude |-> EncodeURIComponent(QueryText(q.lat)),
   longitude |-> EncodeURIComponent(QueryText(q.lon)),
   distance |-> "25",
   API_KEY |-> EncodeURIComponent(AIRNOW_API_KEY)]

\* Lines 117-121 and 137-141, up to the await of fetch.
PassThroughStart(r, path, q, url) ==
  /\ Arrive(r, path, q)
  /\ IF ~fetch
       THEN Respond(r, JsonResponse(500, JObj([error |-> JText(FetchMissing)])))
              /\ UNCHANGED calls
     ELSE IF ~CoordsGiven(q)
       THEN Respond(r, JsonResponse(400, JObj([error |-> JText(CoordsRequired)])))
              /\ UNCHANGED calls
     ELSE Fetch(r, url) /\ UNCHANGED sent
  /\ UNCHANGED <<config, upstream>>

\* Lines 123-128 and 143-148: the parsed body is passed on as it is.
PassThroughBody(r, path, j) ==
  /\ pc[r] = "awaitJson" /\ route[r] = path
  /\ upstream' = [upstream EXCEPT ![r].body = j]
  /\ IF j = BodyRejected THEN Respond(r, Caught(BodyFailedMessage))
     ELSE Respond(r, JsonResponse(200, j))
  /\ UNCHANGED <<config, route, input, calls>>

OpenweatherStart(r, q) == PassThroughStart(r, "/api/openweather", q, OpenweatherUrl(q))

OpenweatherFetched(r, outcome) ==
  /\ pc[r] = "awaitFetch" /\ route[r] = "/api/openweather"
  /\ Settled(r, "OpenWeather fetch failed", outcome)

OpenweatherBody(r, j) == PassThroughBody(r, "/api/openweather", j)

AirnowStart(r, q) == PassThroughStart(r, "/api/airnow", q, AirnowUrl(q))

AirnowFetched(r, outcome) ==
  /\ pc[r] = "awaitFetch" /\ route[r] = "/api/airnow"
  /\ Settled(r, "AirNow fetch failed", outcome)

AirnowBody(r, j) == PassThroughBody(r, "/api/airnow", j)

(***************************************************************************)
(* POST /api/gemini (lines 154-213).                                       *)
(***************************************************************************)
fallback ==
  JText("Demo AI summary: The area shows elevated PM2.5 values, with hotspots near industrial and high-traffic zones. Main pollutants: PM2.5 and NO2. Recommended actions: reduce traffic near sensitive zones, temporary emission controls in industrial clusters, and public health advisories for vulnerable groups.")

EmptyObject == JObj([k \in {} |-> Undef])

\* Lines 169-173 and 176-180: the request given to fetch.
GeminiRequest(prompt, systemInstruction) ==
  [base |-> "https://generativelanguage.googleapis.com/v1beta/models/gemini-2.5-flash:generateContent",
   key |-> EncodeURIComponent(GEMINI_API_KEY),
   method |-> "POST",
   contents |-> IF Truthy(prompt) THEN prompt ELSE JText(""),
   systemInstruction |-> IF Truthy(systemInstruction) THEN systemInstruction ELSE Undef]

\* Line 160: !GEMINI_API_KEY
KeyMissing == GEMINI_API_KEY = <<>>

\* Lines 156-180, up to the await of fetch. Line 167 calls prompt.substring
\* unless prompt is undefined or null: a TypeError for a prompt that is no string.
GeminiStart(r, b) ==
  /\ Arrive(r, "/api/gemini", b)
  /\ LET body == IF Truthy(b) THEN b ELSE EmptyObject
         prompt == Get(body, "prompt")
         systemInstruction == Get(body, "systemInstruction")
     IN IF ~fetch
          THEN Respond(r, JsonResponse(500, JObj([error |-> JText(FetchMissing)])))
                 /\ UNCHANGED calls
        ELSE IF KeyMissing
          THEN Respond(r, JsonResponse(200, JObj([text |-> fallback]))) /\ UNCHANGED calls
        ELSE IF ~Nullish(prompt) /\ prompt.t # "text"
          THEN Respond(r, Caught("prompt?.substring is not a function")) /\ UNCHANGED calls
        ELSE Fetch(r, GeminiRequest(prompt, systemInstruction)) /\ UNCHANGED sent
  /\ UNCHANGED <<config, upstream>>

\* Lines 176-185 and 202: fetch settled; a bad status goes on to `await
\* r.text()`, a good one to `await r.json()`.
GeminiFetched(r, outcome) ==
  /\ pc[r] = "awaitFetch" /\ route[r] = "/api/gemini"
  /\ upstream' = [upstream EXCEPT ![r].status = outcome]
  /\ IF outcome = Rejected THEN Respond(r, Caught(FetchFailedMessage))
     ELSE IF ~Ok(outcome) THEN pc' = [pc EXCEPT ![r] = "awaitText"] /\ UNCHANGED sent
     ELSE pc' = [pc EXCEPT ![r] = "awaitJson"] /\ UNCHANGED sent
  /\ UNCHANGED <<config, route, input, calls>>

\* JSON.parse on the error bodies of the model; a SyntaxError otherwise.
SyntaxError == [t |-> "SyntaxError"]
JSONParse(txt) ==
  CASE txt = "{\"error\":{\"message\":\"quota exceeded\"}}" ->
         JObj([error |-> JObj([message |-> JText("quota exceeded")])])
    [] txt = "{\"error\":\"bad key\"}" -> JObj([error |-> JText("bad key")])
    [] txt = "{\"error\":{\"code\":429}}" -> JObj([error |-> JObj([code |-> Fin(429)])])
    [] txt = "{\"error\":{\"message\":\"\"}}" ->
         JObj([error |-> JObj([message |-> JText("")])])
    [] txt = "{}" -> EmptyObject
    [] txt = "null" -> JNull
    [] txt = "\"oops\"" -> JText("oops")
    [] OTHER -> SyntaxError

\* A faulty variant of ErrorMessage: the parsed body is not looked at.
ErrorMessageRaw(txt) == JText(txt)

\* Lines 187-193: errJson.error?.message || errJson.error || txt, and txt when
\* JSON.parse or the property access throws.
ErrorMessage(txt) ==
  LET errJson == JSONParse(txt)
  IN IF errJson = SyntaxError \/ Nullish(errJson) THEN JText(txt)
     ELSE LET error == Get(errJson, "error")
              message == IF Nullish(error) THEN Undef ELSE Get(error, "message")
          IN IF Truthy(message) THEN message
             ELSE IF Truthy(error) THEN error
             ELSE JText(txt)

\* Lines 185-200.
GeminiErrorText(r, txt) ==
  /\ pc[r] = "awaitText" /\ route[r] = "/api/gemini"
  /\ upstream' = [upstream EXCEPT ![r].body = txt]
  /\ IF txt = BodyRejected THEN Respond(r, Caught(BodyFailedMessage))
     ELSE Respond(r, JsonResponse(500,
            JObj([error |-> JText("Gemini error"),
                  status |-> Fin(upstream[r].status),
                  message |-> ErrorMessage(txt.s),
                  body |-> txt])))
  /\ UNCHANGED <<config, route, input, calls>>

\* Lines 205-207; reading j.candidates of null throws a TypeError.
ExtractText(j) ==
  LET candidates == Get(j, "candidates")
      content == Get(First(candidates), "content")
      parts == Get(content, "parts")
  IN IF Truthy(candidates) /\ Truthy(First(candidates)) /\ Truthy(content)
        /\ Truthy(parts) /\ Truthy(First(parts))
     THEN Get(First(parts), "text")
     ELSE JText("")

\* Lines 202-212.
GeminiBody(r, j) ==
  /\ pc[r] = "awaitJson" /\ route[r] = "/api/gemini"
  /\ upstream' = [upstream EXCEPT ![r].body = j]
  /\ IF j = BodyRejected THEN Respond(r, Caught(BodyFailedMessage))
     ELSE IF Nullish(j)
       THEN Respond(r, Caught("Cannot read properties of null (reading 'candidates')"))
     ELSE Respond(r, JsonResponse(200, JObj([text |-> ExtractText(j)])))
  /\ UNCHANGED <<config, route, input, calls>>

(***************************************************************************)
(* Requests and upstream answers.                                          *)
(***************************************************************************)
Q(chars) == JStr(chars)

LatInputs ==
  {Undef, Q(<<>>), Q(<<"1">>), Q(<<"-", "7">>), Q(<<"1", "7">>), Q(<<"a">>),
   Q(<<"1", "a">>), Q(<<" ", "1">>), Q(InfinityChars), Q(<<"-">>)}
LonInputs == {Undef, Q(<<>>), Q(<<"2">>), Q(<<"x">>)}
RadiusInputs ==
  {Undef, Q(<<>>), Q(<<"5", "0", "0", "0">>), Q(<<"r">>), Q(<<"7">>), Q(<<"7", "m">>)}
DaysInputs ==
  {Undef, Q(<<>>), Q(<<"1">>), Q(<<"0">>), Q(<<"d">>), Q(<<"7">>), Q(<<"-", "1">>),
   Q(<<"2", "0", "0", "0", "0", "0", "0", "0", "0">>)}
\* `new Date()` when the request arrives, in days since 1970.
Nows == {20000, 20001}

OpenaqQueries ==
  [lat : LatInputs, lon : LonInputs, radius : RadiusInputs, days : DaysInputs, now : Nows]

GeoQueries == [lat : LatInputs, lon : LonInputs]

\* Upstream observations of /api/openaq.
Observations ==
  {JObj([value |-> JStr(<<"1", "0">>),
         date |-> JObj([utc |-> JText("2024-01-01T00:00:00Z"),
                        local |-> JText("2024-01-01T05:30:00+05:30")]),
         unit |-> JText("ug/m3"), location |-> JText("Station A"),
         country |-> JText("IN")]),
   JObj([value |-> JStr(<<"a", "b", "c">>),
         date |-> JObj([utc |-> JText("2024-01-01T01:00:00Z")])]),
   JObj([value |-> Fin(20), unit |-> JText("ug/m3")]),
   JObj([value |-> JNull, date |-> JText("yesterday")]),
   JObj([value |-> JStr(InfinityChars)]),
   JObj([location |-> JText("Station B")])}

ResultLists(n) == UNION {[1..k -> Observations] : k \in 0..n}

\* What `await r.json()` gives in /api/openaq, with result lists up to length n.
OpenaqBodies(n) ==
  {BodyRejected, JNull, Fin(5), EmptyObject,
   JObj([meta |-> JObj([found |-> Fin(0)])]),
   JObj([results |-> JText("none")]),
   JObj([results |-> JArr(<<JNull>>)])}
  \cup {JObj([results |-> JArr(l)]) : l \in ResultLists(n)}
  \cup {JObj([results |-> JArr(l), meta |-> JObj([found |-> Fin(Len(l))])]) :
          l \in ResultLists(1)}

PassThroughBodies ==
  {BodyRejected, JNull, JArr(<<>>),
   JObj([main |-> JObj([temp |-> Fin(31)]), name |-> JText("Pune")])}

GeminiInputs ==
  {Undef, EmptyObject,
   JObj([prompt |-> JText("Summarise the air quality")]),
   JObj([prompt |-> JText("")]),
   JObj([prompt |-> JText("Summarise"), systemInstruction |-> JText("Be brief")]),
   JObj([systemInstruction |-> JText("Be brief")]),
   JObj([prompt |-> Fin(7)])}

ErrorTexts ==
  {BodyRejected} \cup
  {JText(x) : x \in {"{\"error\":{\"message\":\"quota exceeded\"}}", "{\"error\":\"bad key\"}",
                     "{\"error\":{\"code\":429}}", "{\"error\":{\"message\":\"\"}}",
                     "{}", "null", "\"oops\"", "Service Unavailable", ""}}

Part(text) == JObj([content |-> JObj([parts |-> JArr(<<text>>)])])
GeminiBodies ==
  {BodyRejected, JNull, EmptyObject,
   JObj([candidates |-> JArr(<<Part(JObj([text |-> JText("The air is clean.")]))>>)]),
   JObj([candidates |-> JArr(<<Part(JObj([text |-> JText("")]))>>)]),
   JObj([candidates |-> JArr(<<Part(EmptyObject)>>)]),
   JObj([candidates |-> JArr(<<Part(JObj([text |-> Fin(42)]))>>)]),
   JObj([candidates |-> JArr(<<>>)]),
   JObj([candidates |-> JArr(<<JNull>>)]),
   JObj([candidates |-> JArr(<<JObj([finishReason |-> JText("SAFETY")])>>)]),
   JObj([candidates |-> JArr(<<JObj([content |-> EmptyObject])>>)]),
   JObj([candidates |-> JArr(<<JObj([content |-> JObj([parts |-> JArr(<<>>)])])>>)]),
   JObj([promptFeedback |-> JObj([blockReason |-> JText("OTHER")])])}

(***************************************************************************)
(* Spec: one request, over all the queries above. (Each disjunct repeats   *)
(* the guard of its action, so that the inputs are enumerated only where   *)
(* the action is enabled.)                                                 *)
(***************************************************************************)
Next ==
  \/ pc[1] = "idle" /\ Maps(1)
  \/ pc[1] = "idle" /\ \E q \in OpenaqQueries : OpenaqStart(1, q)
  \/ pc[1] = "awaitFetch" /\ \E o \in FetchOutcomes : OpenaqFetched(1, o)
  \/ pc[1] = "awaitJson" /\ \E j \in OpenaqBodies(1) : OpenaqBody(1, j)
  \/ pc[1] = "idle" /\ \E q \in GeoQueries : OpenweatherStart(1, q)
  \/ pc[1] = "awaitFetch" /\ \E o \in FetchOutcomes : OpenweatherFetched(1, o)
  \/ pc[1] = "awaitJson" /\ \E j \in PassThroughBodies : OpenweatherBody(1, j)
  \/ pc[1] = "idle" /\ \E q \in GeoQueries : AirnowStart(1, q)
  \/ pc[1] = "awaitFetch" /\ \E o \in FetchOutcomes : AirnowFetched(1, o)
  \/ pc[1] = "awaitJson" /\ \E j \in PassThroughBodies : AirnowBody(1, j)
  \/ pc[1] = "idle" /\ \E b \in GeminiInputs : GeminiStart(1, b)
  \/ pc[1] = "awaitFetch" /\ \E o \in FetchOutcomes : GeminiFetched(1, o)
  \/ pc[1] = "awaitText" /\ \E txt \in ErrorTexts : GeminiErrorText(1, txt)
  \/ pc[1] = "awaitJson" /\ \E j \in GeminiBodies : GeminiBody(1, j)

Spec == Init /\ [][Next]_vars

(***************************************************************************)
(* SpecOpenaq: one /api/openaq request, over all the result lists up to    *)
(* MaxResults observations.                                                *)
(***************************************************************************)
NormalizeQueries ==
  {q \in OpenaqQueries : q.lon = Q(<<"2">>) /\ q.radius = Undef /\ q.days = Undef}

NextOpenaq ==
  \/ pc[1] = "idle" /\ \E q \in NormalizeQueries : OpenaqStart(1, q)
  \/ pc[1] = "awaitFetch" /\ \E o \in FetchOutcomes : OpenaqFetched(1, o)
  \/ pc[1] = "awaitJson" /\ \E j \in OpenaqBodies(MaxResults) : OpenaqBody(1, j)

SpecOpenaq == Init /\ [][NextOpenaq]_vars

(***************************************************************************)
(* SpecConc: NumReqs requests handled concurrently, the awaits of one      *)
(* interleaved with the steps of the others.                               *)
(***************************************************************************)
ConcOpenaqQueries ==
  {q \in OpenaqQueries :
     /\ q.lat \in {Undef, Q(<<"1">>)} /\ q.lon = Q(<<"2">>)
     /\ q.radius = Undef /\ q.days = Undef /\ q.now = 20000}
ConcGeoQueries == {q \in GeoQueries : q.lat \in {Undef, Q(<<"1">>)} /\ q.lon = Q(<<"2">>)}
ConcOutcomes == {Rejected, 200, 503}
ConcOpenaqBodies == {BodyRejected, EmptyObject}
ConcPassThroughBodies == {BodyRejected, JArr(<<>>)}
ConcGeminiInputs == {Undef, JObj([prompt |-> JText("Summarise the air quality")])}
ConcErrorTexts == {BodyRejected, JText("Service Unavailable")}
ConcGeminiBodies == {BodyRejected, EmptyObject}

NextConc ==
  \E r \in Reqs :
    \/ pc[r] = "idle" /\ Maps(r)
    \/ pc[r] = "idle" /\ \E q \in ConcOpenaqQueries : OpenaqStart(r, q)
    \/ pc[r] = "awaitFetch" /\ \E o \in ConcOutcomes : OpenaqFetched(r, o)
    \/ pc[r] = "awaitJson" /\ \E j \in ConcOpenaqBodies : OpenaqBody(r, j)
    \/ pc[r] = "idle" /\ \E q \in ConcGeoQueries : OpenweatherStart(r, q)
    \/ pc[r] = "awaitFetch" /\ \E o \in ConcOutcomes : OpenweatherFetched(r, o)
    \/ pc[r] = "awaitJson" /\ \E j \in ConcPassThroughBodies : OpenweatherBody(r, j)
    \/ pc[r] = "idle" /\ \E q \in ConcGeoQueries : AirnowStart(r, q)
    \/ pc[r] = "awaitFetch" /\ \E o \in ConcOutcomes : AirnowFetched(r, o)
    \/ pc[r] = "awaitJson" /\ \E j \in ConcPassThroughBodies : AirnowBody(r, j)
    \/ pc[r] = "idle" /\ \E b \in ConcGeminiInputs : GeminiStart(r, b)
    \/ pc[r] = "awaitFetch" /\ \E o \in ConcOutcomes : GeminiFetched(r, o)
    \/ pc[r] = "awaitText" /\ \E txt \in ConcErrorTexts : GeminiErrorText(r, txt)
    \/ pc[r] = "awaitJson" /\ \E j \in ConcGeminiBodies : GeminiBody(r, j)

SpecConc == Init /\ [][NextConc]_vars

(***************************************************************************)
(* The claims.                                                             *)
(***************************************************************************)
GeoRoutes == {"/api/openaq", "/api/openweather", "/api/airnow"}
PassThroughRoutes == {"/api/openweather", "/api/airnow"}

Arrived(r) == pc[r] # "idle"
Done(r) == pc[r] = "done"
\* The response of a request that has ended with exactly one.
Response(r) == sent[r][1]
HasField(o, k) == o.t = "object" /\ k \in DOMAIN o.f
\* The request ended with one JSON response of this status carrying `error`.
ErrorResponse(r, code) ==
  /\ Done(r) /\ Len(sent[r]) = 1
  /\ Response(r).status = code
  /\ HasField(Response(r).body, "error")

AbsentOrEmpty(v) == v = Undef \/ v = Q(<<>>)
\* lat or lon is missing or does not parse to a finite number.
CoordsNotFinite(q) == ~IsFiniteNum(ParseFloat(q.lat)) \/ ~IsFiniteNum(ParseFloat(q.lon))

\* C1 as stated: on the three geo endpoints, a lat or lon that is missing or
\* not a finite number is answered with HTTP 400 and an `error` field, and no
\* upstream fetch is issued (read for a server that has a fetch implementation).
C1_Original ==
  \A r \in Reqs :
    (Arrived(r) /\ fetch /\ route[r] \in GeoRoutes /\ CoordsNotFinite(input[r]))
      => ErrorResponse(r, 400) /\ calls[r] = <<>>

\* C1 as amended: /api/openaq rejects a lat or lon that is missing or that
\* parseFloat does not turn into a finite number; /api/openweather and
\* /api/airnow reject a lat or lon that is missing or empty, and forward every
\* other lat and lon upstream without a numeric test. A rejection is one JSON
\* response with an `error` field and no upstream fetch: HTTP 400, or HTTP 500
\* when the server found no fetch implementation.
C1_Amended ==
  \A r \in Reqs :
    /\ (Arrived(r) /\ route[r] = "/api/openaq" /\ CoordsNotFinite(input[r]))
         => ErrorResponse(r, IF fetch THEN 400 ELSE 500) /\ calls[r] = <<>>
    /\ (Arrived(r) /\ route[r] \in PassThroughRoutes
          /\ (AbsentOrEmpty(input[r].lat) \/ AbsentOrEmpty(input[r].lon)))
         => ErrorResponse(r, IF fetch THEN 400 ELSE 500) /\ calls[r] = <<>>
    /\ (Arrived(r) /\ route[r] \in PassThroughRoutes /\ fetch
          /\ ~AbsentOrEmpty(input[r].lat) /\ ~AbsentOrEmpty(input[r].lon))
         => Len(calls[r]) = 1

\* A request to /api/airnow with lat given and lon empty was answered 400.
C1_Witness ==
  \E r \in Reqs :
    /\ route[r] = "/api/airnow" /\ input[r].lat = Q(<<"1">>) /\ input[r].lon = Q(<<>>)
    /\ ErrorResponse(r, 400) /\ calls[r] = <<>>

\* C2 as stated: with GEMINI_API_KEY unset or empty, every POST /api/gemini
\* ends with HTTP 200 and {text: fallback}, and no outbound call is issued.
C2_Claim ==
  \A r \in Reqs :
    (Arrived(r) /\ route[r] = "/api/gemini" /\ GEMINI_API_KEY = <<>>)
      => /\ Done(r) /\ calls[r] = <<>>
         /\ sent[r] = <<[status |-> 200, body |-> JObj([text |-> fallback]),
                         location |-> <<>>]>>

\* C3: in every HTTP 200 response of /api/openaq, `mean` is null exactly when
\* `values` is empty, and otherwise mean * length(values) = sum(values).
C3_MeanOfValues ==
  \A r \in Reqs :
    (route[r] = "/api/openaq" /\ Done(r) /\ Response(r).status = 200)
      => LET mean == Response(r).body.f.mean
             values == Response(r).body.f.values.a
         IN /\ (mean = JNull) <=> (values = <<>>)
            /\ values # <<>> =>
                 /\ mean.t = "number" /\ mean.k = "fin" /\ mean.d > 0
                 /\ mean.n * Len(values) = Sum(values) * mean.d

\* A 200 response for observations of which none has a finite value: mean is
\* null and values is empty.
C3_Witness ==
  \E r \in Reqs :
    /\ route[r] = "/api/openaq" /\ Done(r) /\ Response(r).status = 200
    /\ Len(Response(r).body.f.raw.a) = 2
    /\ Response(r).body.f.values.a = <<>>
    /\ Response(r).body.f.mean = JNull

\* radius or days is absent, or parseInt makes no number of it.
AbsentOrNonNumeric(v) == ~Truthy(v) \/ ~IsFiniteNum(ParseInt(v))

\* C4 as stated: with finite lat and lon, a request whose radius and days are
\* absent or non-numeric builds the upstream request that radius=5000&days=1
\* builds at the same instant, and is not answered with an error.
C4_Claim ==
  \A r \in Reqs :
    (Arrived(r) /\ route[r] = "/api/openaq" /\ fetch /\ ~CoordsNotFinite(input[r])
       /\ AbsentOrNonNumeric(input[r].radius) /\ AbsentOrNonNumeric(input[r].days))
      => calls[r] = <<OpenaqUrl(ParseFloat(input[r].lat), ParseFloat(input[r].lon),
                                Fin(5000), input[r].now - 1, input[r].now)>>

\* The upstream of /api/gemini answered request r with a bad status and its
\* body text was read.
GeminiErrorRead(r) ==
  /\ route[r] = "/api/gemini" /\ Done(r) /\ Len(calls[r]) = 1
  /\ upstream[r].status # Rejected /\ ~Ok(upstream[r].status)
  /\ upstream[r].body.t = "text"

\* The response carries the upstream status and the raw upstream text.
GeminiErrorShape(r) ==
  /\ Len(sent[r]) = 1
  /\ Response(r).status = 500
  /\ HasField(Response(r).body, "status") /\ HasField(Response(r).body, "message")
  /\ HasField(Response(r).body, "body")
  /\ Response(r).body.f.status = Fin(upstream[r].status)
  /\ Response(r).body.f.body = upstream[r].body

\* error.message of a body that parses as structured error JSON, else undefined.
NestedMessage(txt) ==
  LET j == JSONParse(txt)
  IN IF HasField(j, "error") /\ HasField(j.f.error, "message")
          /\ j.f.error.f.message.t = "text"
     THEN j.f.error.f.message ELSE Undef

\* C5 as stated: a bad upstream status is answered with HTTP 500 carrying
\* status, message and body; message is the nested error.message when the body
\* parses as structured error JSON, and the raw text otherwise.
C5_Original ==
  \A r \in Reqs :
    GeminiErrorRead(r)
      => /\ GeminiErrorShape(r)
         /\ Response(r).body.f.message =
              IF NestedMessage(upstream[r].body.s) # Undef
              THEN NestedMessage(upstream[r].body.s) ELSE upstream[r].body

\* The `error` value of a body that parses to a JSON object, else undefined.
ErrorField(txt) ==
  LET j == JSONParse(txt) IN IF HasField(j, "error") THEN j.f.error ELSE Undef

\* C5 as amended: a bad upstream status is answered with HTTP 500 carrying
\* status, message and body; message is the nested error.message when the body
\* parses as JSON with a non-empty error.message, else the parsed body's
\* `error` value when it has a truthy one (a string or an object), and the raw
\* text otherwise.
C5_Amended ==
  \A r \in Reqs :
    GeminiErrorRead(r)
      => /\ GeminiErrorShape(r)
         /\ Response(r).body.f.message =
              LET txt == upstream[r].body.s
              IN IF NestedMessage(txt) # Undef /\ NestedMessage(txt).s # ""
                   THEN NestedMessage(txt)
                 ELSE IF ErrorField(txt).t \in {"text", "object"}
                         /\ ErrorField(txt) # JText("")
                   THEN ErrorField(txt)
                 ELSE upstream[r].body
         /\ (upstream[r].body = JText("{\"error\":{\"message\":\"quota exceeded\"}}")
               => Response(r).body.f.message = JText("quota exceeded"))
         /\ (upstream[r].body = JText("{\"error\":\"bad key\"}")
               => Response(r).body.f.message = JText("bad key"))
         /\ (upstream[r].body = JText("Service Unavailable")
               => Response(r).body.f.message = JText("Service Unavailable"))

\* The upstream answered 503 with {"error":{"message":"quota exceeded"}} and
\* the response is a 500 whose message is "quota exceeded".
C5_Witness ==
  \E r \in Reqs :
    /\ GeminiErrorRead(r) /\ upstream[r].status = 503
    /\ upstream[r].body = JText("{\"error\":{\"message\":\"quota exceeded\"}}")
    /\ Response(r).status = 500
    /\ Response(r).body.f.message = JText("quota exceeded")

\* j.candidates[0].content.parts[0] when every level of that path is there.
FirstPart(j) ==
  LET c == IF HasField(j, "candidates") THEN First(j.f.candidates) ELSE Undef
      content == IF HasField(c, "content") THEN c.f.content ELSE Undef
      parts == IF HasField(content, "parts") THEN First(content.f.parts) ELSE Undef
  IN parts

\* C6 as stated: a good upstream status with a JSON body is answered with HTTP
\* 200 and {text}, text a string: the first candidate's first part's text when
\* that structure is present, the empty string for every other JSON shape.
C6_Claim ==
  \A r \in Reqs :
    (route[r] = "/api/gemini" /\ Done(r) /\ Len(calls[r]) = 1
       /\ Ok(upstream[r].status) /\ upstream[r].body # BodyRejected)
      => /\ Len(sent[r]) = 1 /\ Response(r).status = 200
         /\ HasField(Response(r).body, "text")
         /\ Response(r).body.f.text.t = "text"
         /\ Response(r).body.f.text =
              IF HasField(FirstPart(upstream[r].body), "text")
                   /\ FirstPart(upstream[r].body).f.text.t = "text"
              THEN FirstPart(upstream[r].body).f.text ELSE JText("")

\* C7: on the three geo endpoints, once the upstream call is issued, a bad
\* upstream status is answered with HTTP 500 carrying `error` and the upstream
\* status, and a rejected fetch or a failed read of the body with HTTP 500
\* carrying the failure's message; a request that has ended has exactly one
\* response, and one that has not ended has none.
C7_UpstreamFailure ==
  \A r \in Reqs :
    route[r] \in GeoRoutes
      => /\ Len(sent[r]) = IF Done(r) THEN 1 ELSE 0
         /\ (Done(r) /\ Len(calls[r]) = 1 /\ upstream[r].status = Rejected)
              => /\ Response(r).status = 500
                 /\ Response(r).body = JObj([error |-> JText(FetchFailedMessage)])
         /\ (Done(r) /\ Len(calls[r]) = 1 /\ upstream[r].status # Rejected
               /\ ~Ok(upstream[r].status))
              => /\ ErrorResponse(r, 500)
                 /\ HasField(Response(r).body, "status")
                 /\ Response(r).body.f.status = Fin(upstream[r].status)
         /\ (Done(r) /\ upstream[r].body = BodyRejected)
              => /\ Response(r).status = 500
                 /\ Response(r).body = JObj([error |-> JText(BodyFailedMessage)])

\* A /api/openweather request whose fetch was rejected ended with the one
\* response 500 {error: "fetch failed"}.
C7_Witness ==
  \E r \in Reqs :
    /\ route[r] = "/api/openweather" /\ Done(r) /\ Len(calls[r]) = 1
    /\ upstream[r].status = Rejected
    /\ sent[r] = <<Caught(FetchFailedMessage)>>

EscapedLibs ==
  <<"p", "l", "a", "c", "e", "s", "%", "2", "C", "d", "r", "a", "w", "i", "n", "g",
    "%", "2", "C", "g", "e", "o", "m", "e", "t", "r", "y">>

\* GET /maps ended with one 302 whose Location holds the escaped key.
MapsRedirect(r) ==
  /\ Len(sent[r]) = 1 /\ Response(r).status = 302
  /\ Contains(Response(r).location, EncodeURIComponent(GOOGLE_MAPS_API_KEY))

\* C8 as stated: GET /maps answers 302 with a Location that contains the key
\* URL-escaped and the literal places,drawing,geometry.
C8_Original ==
  \A r \in Reqs :
    (route[r] = "/maps" /\ Arrived(r))
      => MapsRedirect(r) /\ Contains(Response(r).location, libs)

\* C8 as amended: GET /maps answers 302 with a Location that contains the key
\* URL-escaped and the libraries list URL-escaped as well,
\* places%2Cdrawing%2Cgeometry; the list with literal commas does not occur.
C8_Amended ==
  \A r \in Reqs :
    (route[r] = "/maps" /\ Arrived(r))
      => /\ MapsRedirect(r) /\ Done(r) /\ calls[r] = <<>>
         /\ Contains(Response(r).location, EscapedLibs)
         /\ ~Contains(Response(r).location, libs)

\* GET /maps answered for a key holding characters that are escaped.
C8_Witness ==
  \E r \in Reqs :
    /\ route[r] = "/maps" /\ Done(r) /\ Response(r).status = 302
    /\ GOOGLE_MAPS_API_KEY # EncodeURIComponent(GOOGLE_MAPS_API_KEY)
    /\ Contains(Response(r).location, <<"k", "%", "2", "6", "v", "%", "3", "D", "1">>)

\* The values of the observations that coerce to a finite number, in order.
RECURSIVE FiniteValues(_)
FiniteValues(os) ==
  IF os = <<>> THEN <<>>
  ELSE LET x == ToNumber(Get(Head(os), "value"))
       IN (IF x.k = "fin" THEN <<x>> ELSE <<>>) \o FiniteValues(Tail(os))

\* The upstream of /api/openaq answered request r with a list of observations.
ObservationsRead(r) ==
  /\ route[r] = "/api/openaq" /\ Done(r) /\ Len(calls[r]) = 1
  /\ Ok(upstream[r].status)
  /\ HasField(upstream[r].body, "results")
  /\ upstream[r].body.f.results.t = "array"
  /\ \A i \in 1..Len(upstream[r].body.f.results.a) :
       upstream[r].body.f.results.a[i].t = "object"

SpecExample ==
  <<JObj([value |-> JStr(<<"1", "0">>),
          date |-> JObj([utc |-> JText("2024-01-01T00:00:00Z"),
                         local |-> JText("2024-01-01T05:30:00+05:30")]),
          unit |-> JText("ug/m3"), location |-> JText("Station A"),
          country |-> JText("IN")]),
    JObj([value |-> JStr(<<"a", "b", "c">>),
          date |-> JObj([utc |-> JText("2024-01-01T01:00:00Z")])]),
    JObj([value |-> Fin(20), unit |-> JText("ug/m3")])>>

OneRequestStep ==
  /\ UNCHANGED config
  /\ \E r \in Reqs :
       \A o \in Reqs \ {r} :
         UNCHANGED <<pc[o], route[o], input[o], calls[o], upstream[o], sent[o]>>

\* A request's input and its upstream request never change once set.
Immutable ==
  \A r \in Reqs :
    /\ Arrived(r) => input'[r] = input[r] /\ route'[r] = route[r]
    /\ calls[r] # <<>> => calls'[r] = calls[r]
    /\ sent[r] # <<>> => sent'[r] = sent[r] /\ pc'[r] = "done"

\* C10: whatever the interleaving of the requests, each request issues at most
\* one upstream call and writes at most one response; a failed upstream call
\* is answered and not issued again; a step of one request changes nothing of
\* another request, nor the configuration.
C10_OneCallNoRetry ==
  /\ [](\A r \in Reqs : Len(calls[r]) <= 1 /\ Len(sent[r]) <= 1)
  /\ [][OneRequestStep /\ Immutable]_vars

\* Two requests in flight at once: one has failed upstream and been answered
\* 500 after its single call, the other still awaits its own call.
C10_Witness ==
  \E r1, r2 \in Reqs :
    /\ r1 # r2
    /\ Done(r1) /\ Len(calls[r1]) = 1 /\ ~Ok(upstream[r1].status)
    /\ Response(r1).status = 500
    /\ pc[r2] = "awaitFetch" /\ Len(calls[r2]) = 1

====
